---------------------------- MODULE Spec2Model ----------------------------
(***************************************************************************)
(* The HubSpot webhook boundary (main.py, hubspot_webhook) and the event   *)
(* router (router.py, route_event) of the BDR assistant.                   *)
(*                                                                         *)
(* Every request is served by its own asyncio task: hubspot_webhook parses *)
(* the body, schedules route_event as a background task and returns the    *)
(* response; the framework sends the response and only then runs the       *)
(* background task.  route_event suspends at its awaits (the workflow      *)
(* handler, post_error), which is where the tasks of different requests    *)
(* interleave.                                                             *)
(***************************************************************************)
EXTENDS Integers, Sequences, FiniteSets, TLC

\* Number of requests in the model.
NumEvents == 2
\* Numeric object identifiers are 0 .. MaxObjectId (0 is the falsy one).
MaxObjectId == 1

Events == 1 .. NumEvents

-----------------------------------------------------------------------------
(* JSON values, as Python sees them after request.json().                  *)

None    == [t |-> "null", v |-> 0]
JStr(s) == [t |-> "str", v |-> s]
JNum(n) == [t |-> "num", v |-> n]

\* Python truthiness of a JSON scalar: None, "" and 0 are falsy.
Truthy(x) == x \notin {None, JStr(""), JNum(0)}

Keys == {"subscriptionType", "objectId", "propertyName"}

\* An absent key (not a JSON value: it only builds the payloads below).
Absent == [t |-> "absent", v |-> 0]

SubscriptionTypes ==
    { JStr("contact.creation"), JStr("contact.propertyChange"),
      JStr("deal.propertyChange"), JStr("company.creation"), JStr("") }

ObjectIds == { JStr("42"), JStr("") } \cup { JNum(n) : n \in 0 .. MaxObjectId }

\* router.py line 50
DraftProperties == { JStr("lifecyclestage"), JStr("lead_status"), JStr("hs_lead_status") }
\* router.py line 53
FollowupProperties ==
    { JStr("notes_last_updated"), JStr("engagement_last_updated"),
      JStr("email_opened"), JStr("email_clicked") }

\* Names that differ from a routed one by case, by a prefix or by a suffix,
\* and names that are routed nowhere.
NearMissProperties ==
    { JStr("LifecycleStage"), JStr("lead_statu"), JStr("email_opened_at"),
      JStr("amount") }

PropertyNames ==
    DraftProperties \cup FollowupProperties \cup { JStr("dealstage") }
        \cup NearMissProperties

\* The dict with the given fields; a field given as Absent is left out.
MkPayload(s, o, p) ==
    LET val == [k \in Keys |-> CASE k = "subscriptionType" -> s
                                 [] k = "objectId" -> o
                                 [] k = "propertyName" -> p]
    IN  [k \in {j \in Keys : val[j] # Absent} |-> val[k]]

Payloads ==
    { MkPayload(s, o, p) : s \in SubscriptionTypes \cup {Absent},
                           o \in ObjectIds \cup {Absent},
                           p \in PropertyNames \cup {Absent} }

\* The payload of the requests that arrive beside the first one: a property
\* change of contact "42", which the first request may concern as well.
TrafficPayloads ==
    { MkPayload(JStr("contact.propertyChange"), JStr("42"), JStr("lifecyclestage")) }

\* A request body: a JSON object, JSON that is no object, or no JSON at all.
EmptyDict == [k \in {} |-> None]
ObjectBody(p) == [kind |-> "object", obj |-> p]
OtherBodies ==
    { [kind |-> k, obj |-> EmptyDict] : k \in {"invalid", "list", "string", "number", "null"} }

Bodies(e) ==
    IF e = 1 THEN { ObjectBody(p) : p \in Payloads } \cup OtherBodies
             ELSE { ObjectBody(p) : p \in TrafficPayloads }

NoRequest == [kind |-> "none", obj |-> EmptyDict]

-----------------------------------------------------------------------------
VARIABLES
    request,           \* request[e]: the body of request e, NoRequest before it arrives
    response,          \* response[e]: what hubspot_webhook returned or raised
    ack,               \* ack[e]: the response the caller has received
    background_tasks,  \* background_tasks[e]: the payloads given to add_task
    task,              \* task[e]: where the route_event task of request e stands
    invoked,           \* invoked[e]: the handler calls made for e, in order
    errorSink,         \* errorSink[e]: the post_error calls made for e, in order
    raised             \* raised[e]: what has raised while e was dispatched

vars == <<request, response, ack, background_tasks, task, invoked, errorSink, raised>>

NoResponse == [status |-> 0, content |-> <<>>]

Init ==
    /\ request = [e \in Events |-> NoRequest]
    /\ response = [e \in Events |-> NoResponse]
    /\ ack = [e \in Events |-> NoResponse]
    /\ background_tasks = [e \in Events |-> <<>>]
    /\ task = [e \in Events |-> "none"]
    /\ invoked = [e \in Events |-> <<>>]
    /\ errorSink = [e \in Events |-> <<>>]
    /\ raised = [e \in Events |-> {}]


-----------------------------------------------------------------------------
(* route_event's routing decision: lines 24-75 up to the first await.      *)

\* payload.get(key): the value, or None when the key is absent.
Get(payload, key) == IF key \in DOMAIN payload THEN payload[key] ELSE None

\* What the synchronous part of route_event ends with: it awaits a handler,
\* it returns, or it raises into the except clause of line 77.
Await(h, id) == [kind |-> "await", handler |-> h, arg |-> id]
Return == [kind |-> "return", handler |-> "none", arg |-> None]
Raise == [kind |-> "raise", handler |-> "none", arg |-> None]

\* ContactCreation reading the identifier under a key the payload never has.
ContactCreationWrongKey(payload) ==
    LET contact_id == Get(payload, "contactId")
    IN  IF Truthy(contact_id) THEN Await("enrich", contact_id) ELSE Return

\* ContactCreation reading payload["objectId"], a KeyError when it is absent.
ContactCreationKeyError(payload) ==
    IF "objectId" \notin DOMAIN payload THEN Raise
    ELSE IF Truthy(payload["objectId"]) THEN Await("enrich", payload["objectId"])
    ELSE Return

\* ContactCreation testing `contact_id is not None` instead of its truth.
ContactCreationIsNotNone(payload) ==
    LET contact_id == Get(payload, "objectId")
    IN  IF contact_id # None THEN Await("enrich", contact_id) ELSE Return

\* router.py lines 33-38
ContactCreation(payload) ==
    LET contact_id == Get(payload, "objectId")
    IN  IF Truthy(contact_id) THEN Await("enrich", contact_id) ELSE Return

\* ContactPropertyChange matching by prefix (startswith) instead of equality:
\* over PropertyNames, "email_opened_at" then matches "email_opened".
ContactPropertyChangePrefix(payload) ==
    LET contact_id == Get(payload, "objectId")
        property_name == Get(payload, "propertyName")
    IN  IF ~Truthy(contact_id) THEN Return
        ELSE IF property_name \in DraftProperties THEN Await("draft", contact_id)
        ELSE IF property_name \in FollowupProperties \cup {JStr("email_opened_at")}
            THEN Await("followup", contact_id)
        ELSE Return

\* ContactPropertyChange without the return of line 47.
ContactPropertyChangeNoReturn(payload) ==
    LET contact_id == Get(payload, "objectId")
        property_name == Get(payload, "propertyName")
    IN  IF property_name \in DraftProperties THEN Await("draft", contact_id)
        ELSE IF property_name \in FollowupProperties THEN Await("followup", contact_id)
        ELSE Return

\* router.py lines 41-57
ContactPropertyChange(payload) ==
    LET contact_id == Get(payload, "objectId")
        property_name == Get(payload, "propertyName")
    IN  IF ~Truthy(contact_id) THEN Return
        ELSE IF property_name \in DraftProperties THEN Await("draft", contact_id)
        ELSE IF property_name \in FollowupProperties THEN Await("followup", contact_id)
        ELSE Return

\* DealPropertyChange without the test of line 69.
DealPropertyChangeAnyProperty(payload) ==
    LET deal_id == Get(payload, "objectId")
    IN  IF ~Truthy(deal_id) THEN Return ELSE Await("prep", deal_id)

\* router.py lines 60-72
DealPropertyChange(payload) ==
    LET deal_id == Get(payload, "objectId")
        property_name == Get(payload, "propertyName")
    IN  IF ~Truthy(deal_id) THEN Return
        ELSE IF property_name = JStr("dealstage") THEN Await("prep", deal_id)
        ELSE Return

\* Classify reading payload["subscriptionType"], a KeyError when it is absent.
ClassifyKeyError(payload) ==
    IF "subscriptionType" \notin DOMAIN payload THEN Raise
    ELSE LET subscription_type == payload["subscriptionType"]
         IN  IF ~Truthy(subscription_type) THEN Return
             ELSE IF subscription_type = JStr("contact.creation")
                 THEN ContactCreation(payload)
             ELSE IF subscription_type = JStr("contact.propertyChange")
                 THEN ContactPropertyChange(payload)
             ELSE IF subscription_type = JStr("deal.propertyChange")
                 THEN DealPropertyChange(payload)
             ELSE Return

\* Classify raising on a subscriptionType it does not know, instead of the
\* warning of line 75.
ClassifyRaisesOnUnknown(payload) ==
    LET subscription_type == Get(payload, "subscriptionType")
    IN  IF ~Truthy(subscription_type) THEN Return
        ELSE IF subscription_type = JStr("contact.creation")
            THEN ContactCreation(payload)
        ELSE IF subscription_type = JStr("contact.propertyChange")
            THEN ContactPropertyChange(payload)
        ELSE IF subscription_type = JStr("deal.propertyChange")
            THEN DealPropertyChange(payload)
        ELSE Raise

\* router.py lines 24-75
Classify(payload) ==
    LET subscription_type == Get(payload, "subscriptionType")
    IN  IF ~Truthy(subscription_type) THEN Return
        ELSE IF subscription_type = JStr("contact.creation")
            THEN ContactCreation(payload)
        ELSE IF subscription_type = JStr("contact.propertyChange")
            THEN ContactPropertyChange(payload)
        ELSE IF subscription_type = JStr("deal.propertyChange")
            THEN DealPropertyChange(payload)
        ELSE Return

\* router.py line 83: the arguments of the post_error call.
PostErrorCall(payload) ==
    [error_message |-> "Error routing event", context |-> [payload |-> payload]]

-----------------------------------------------------------------------------
(* The boundary: main.py, hubspot_webhook.                                 *)

\* main.py lines 64-67
JSONResponse200 ==
    [status |-> 200, content |-> <<"received", "Webhook processing started">>]
\* main.py lines 71-74
HTTPException500 ==
    [status |-> 500, content |-> <<"Failed to process webhook">>]

\* A request arrives: its body is what request.json() will read.
Receive(e, b) ==
    /\ request[e] = NoRequest
    /\ request' = [request EXCEPT ![e] = b]
    /\ UNCHANGED <<response, ack, background_tasks, task, invoked, errorSink, raised>>

\* HubspotWebhook answering by what the payload holds: a payload without
\* subscriptionType is refused like a body that cannot be parsed.
HubspotWebhookValidates(e) ==
    /\ request[e] # NoRequest
    /\ response[e] = NoResponse
    /\ IF request[e].kind = "object"
         THEN /\ background_tasks' =
                    [background_tasks EXCEPT ![e] = Append(@, request[e].obj)]
              /\ response' = [response EXCEPT ![e] =
                    IF "subscriptionType" \in DOMAIN request[e].obj
                        THEN JSONResponse200 ELSE HTTPException500]
         ELSE /\ response' = [response EXCEPT ![e] = HTTPException500]
              /\ UNCHANGED background_tasks
    /\ UNCHANGED <<request, ack, task, invoked, errorSink, raised>>

\* HubspotWebhook going on with an empty payload when the body is no JSON,
\* instead of leaving through the except clause of line 69.
HubspotWebhookLenient(e) ==
    /\ request[e] # NoRequest
    /\ response[e] = NoResponse
    /\ IF request[e].kind \in {"object", "invalid"}
         THEN /\ background_tasks' =
                    [background_tasks EXCEPT ![e] = Append(@, request[e].obj)]
              /\ response' = [response EXCEPT ![e] = JSONResponse200]
         ELSE /\ response' = [response EXCEPT ![e] = HTTPException500]
              /\ UNCHANGED background_tasks
    /\ UNCHANGED <<request, ack, task, invoked, errorSink, raised>>

\* HubspotWebhook without the payload.get of line 59: only a body that is
\* no JSON leaves through the except clause, any JSON value is scheduled.
HubspotWebhookNoGet(e) ==
    /\ request[e] # NoRequest
    /\ response[e] = NoResponse
    /\ IF request[e].kind # "invalid"
         THEN /\ background_tasks' =
                    [background_tasks EXCEPT ![e] = Append(@, request[e].obj)]
              /\ response' = [response EXCEPT ![e] = JSONResponse200]
         ELSE /\ response' = [response EXCEPT ![e] = HTTPException500]
              /\ UNCHANGED background_tasks
    /\ UNCHANGED <<request, ack, task, invoked, errorSink, raised>>

\* main.py lines 55-74: request.json() raises on a body that is no JSON, and
\* payload.get raises on JSON that is no object; both end in line 69.
HubspotWebhook(e) ==
    /\ request[e] # NoRequest
    /\ response[e] = NoResponse
    /\ IF request[e].kind = "object"
         THEN /\ background_tasks' =
                    [background_tasks EXCEPT ![e] = Append(@, request[e].obj)]
              /\ response' = [response EXCEPT ![e] = JSONResponse200]
         ELSE /\ response' = [response EXCEPT ![e] = HTTPException500]
              /\ UNCHANGED background_tasks
    /\ UNCHANGED <<request, ack, task, invoked, errorSink, raised>>

\* SendResponse held back until the route_event task of the request is over,
\* as when route_event is awaited before the response is made.
SendResponseAfterTask(e) ==
    /\ response[e] # NoResponse
    /\ ack[e] = NoResponse
    /\ background_tasks[e] # <<>> => task[e] \in {"returned", "raised"}
    /\ ack' = [ack EXCEPT ![e] = response[e]]
    /\ UNCHANGED <<request, response, background_tasks, task, invoked, errorSink, raised>>

\* The framework sends what the endpoint returned or raised.
SendResponse(e) ==
    /\ response[e] # NoResponse
    /\ ack[e] = NoResponse
    /\ ack' = [ack EXCEPT ![e] = response[e]]
    /\ UNCHANGED <<request, response, background_tasks, task, invoked, errorSink, raised>>

-----------------------------------------------------------------------------
(* The background task: router.py, route_event.                            *)

\* BackgroundReady under a lock per subject: route_event waits while the
\* handler of another event of the same objectId is running.
BackgroundReadyLocked(e) ==
    /\ ack[e] # NoResponse
    /\ background_tasks[e] # <<>>
    /\ task[e] = "none"
    /\ \A f \in Events \ {e} :
          task[f] = "handler" =>
              Get(Head(background_tasks[f]), "objectId")
                  # Get(Head(background_tasks[e]), "objectId")

\* BackgroundReady for a task started where it is scheduled (as with
\* asyncio.create_task, or an inline await), not tied to the response.
BackgroundReadyAtOnce(e) ==
    /\ background_tasks[e] # <<>>
    /\ task[e] = "none"

\* main.py line 62: a task added to the response's background tasks runs
\* once the response has been sent.
BackgroundReady(e) ==
    /\ ack[e] # NoResponse
    /\ background_tasks[e] # <<>>
    /\ task[e] = "none"

\* router.py lines 77-83: the except clause, up to the await of post_error.
Except(e, what) ==
    /\ raised' = [raised EXCEPT ![e] = @ \cup {what}]
    /\ errorSink' =
          [errorSink EXCEPT ![e] = Append(@, PostErrorCall(Head(background_tasks[e])))]
    /\ task' = [task EXCEPT ![e] = "reporting"]

\* RouteEvent reading the payload from a module-level variable that every
\* request overwrites: it may route the payload of another request.
RouteEventSharedPayload(e) ==
    /\ BackgroundReady(e)
    /\ \E f \in Events :
          /\ background_tasks[f] # <<>>
          /\ LET step == Classify(Head(background_tasks[f]))
             IN  CASE step.kind = "await" ->
                        /\ invoked' = [invoked EXCEPT ![e] =
                                          Append(@, [handler |-> step.handler, arg |-> step.arg])]
                        /\ task' = [task EXCEPT ![e] = "handler"]
                        /\ UNCHANGED <<errorSink, raised>>
                   [] step.kind = "return" ->
                        /\ task' = [task EXCEPT ![e] = "returned"]
                        /\ UNCHANGED <<invoked, errorSink, raised>>
                   [] step.kind = "raise" ->
                        /\ Except(e, "route_event")
                        /\ UNCHANGED invoked
    /\ UNCHANGED <<request, response, ack, background_tasks>>

\* router.py lines 23-75: route_event runs to its first await or to its end.
RouteEvent(e) ==
    /\ BackgroundReady(e)
    /\ LET step == Classify(Head(background_tasks[e]))
       IN  CASE step.kind = "await" ->
                  /\ invoked' = [invoked EXCEPT ![e] =
                                    Append(@, [handler |-> step.handler, arg |-> step.arg])]
                  /\ task' = [task EXCEPT ![e] = "handler"]
                  /\ UNCHANGED <<errorSink, raised>>
             [] step.kind = "return" ->
                  /\ task' = [task EXCEPT ![e] = "returned"]
                  /\ UNCHANGED <<invoked, errorSink, raised>>
             [] step.kind = "raise" ->
                  /\ Except(e, "route_event")
                  /\ UNCHANGED invoked
    /\ UNCHANGED <<request, response, ack, background_tasks>>

\* The awaited handler returns: route_event falls off its end.
HandlerReturn(e) ==
    /\ task[e] = "handler"
    /\ task' = [task EXCEPT ![e] = "returned"]
    /\ UNCHANGED <<request, response, ack, background_tasks, invoked, errorSink, raised>>

\* HandlerRaise that invokes the failed handler again instead of reporting.
HandlerRaiseRetries(e) ==
    /\ task[e] = "handler"
    /\ raised' = [raised EXCEPT ![e] = @ \cup {"handler"}]
    /\ invoked' = [invoked EXCEPT ![e] = Append(@, Head(@))]
    /\ UNCHANGED <<request, response, ack, background_tasks, task, errorSink>>

\* HandlerRaise without the try of line 23: the exception leaves route_event.
HandlerRaisePropagates(e) ==
    /\ task[e] = "handler"
    /\ raised' = [raised EXCEPT ![e] = @ \cup {"handler"}]
    /\ task' = [task EXCEPT ![e] = "raised"]
    /\ UNCHANGED <<request, response, ack, background_tasks, invoked, errorSink>>

\* HandlerRaise with the await of the handler under a time limit
\* (asyncio.wait_for): the except clause is entered either because the
\* handler raised or because the limit ran out on a handler still running.
HandlerRaiseOrTimeout(e) ==
    /\ task[e] = "handler"
    /\ \E what \in {"handler", "timeout"} : Except(e, what)
    /\ UNCHANGED <<request, response, ack, background_tasks, invoked>>

\* The awaited handler raises: router.py lines 77-83.
HandlerRaise(e) ==
    /\ task[e] = "handler"
    /\ Except(e, "handler")
    /\ UNCHANGED <<request, response, ack, background_tasks, invoked>>

\* post_error returns: route_event returns.
PostErrorReturn(e) ==
    /\ task[e] = "reporting"
    /\ task' = [task EXCEPT ![e] = "returned"]
    /\ UNCHANGED <<request, response, ack, background_tasks, invoked, errorSink, raised>>

\* PostErrorRaise without the inner try of line 82: the exception raised by
\* post_error leaves route_event.
PostErrorRaisePropagates(e) ==
    /\ task[e] = "reporting"
    /\ raised' = [raised EXCEPT ![e] = @ \cup {"post_error"}]
    /\ task' = [task EXCEPT ![e] = "raised"]
    /\ UNCHANGED <<request, response, ack, background_tasks, invoked, errorSink>>

\* post_error raises: router.py lines 84-85 log it and route_event returns.
PostErrorRaise(e) ==
    /\ task[e] = "reporting"
    /\ raised' = [raised EXCEPT ![e] = @ \cup {"post_error"}]
    /\ task' = [task EXCEPT ![e] = "returned"]
    /\ UNCHANGED <<request, response, ack, background_tasks, invoked, errorSink>>

Next ==
    \E e \in Events :
        \/ \E b \in Bodies(e) : Receive(e, b)
        \/ HubspotWebhook(e)
        \/ SendResponse(e)
        \/ RouteEvent(e)
        \/ HandlerReturn(e)
        \/ HandlerRaise(e)
        \/ PostErrorReturn(e)
        \/ PostErrorRaise(e)

Spec == Init /\ [][Next]_vars

\* The event loop runs every coroutine that is ready: the endpoint of a
\* received request runs, and the response it returned is sent.  Nothing
\* obliges an awaited handler or post_error to ever finish.
FairSpec ==
    /\ Spec
    /\ \A e \in Events :
          /\ WF_vars(HubspotWebhook(e))
          /\ WF_vars(SendResponse(e))

\* Every coroutine of request e that is ready runs, and the handler and the
\* post_error call that route_event awaits come to an end.
Run(e) ==
    \/ HubspotWebhook(e)
    \/ SendResponse(e)
    \/ RouteEvent(e)
    \/ HandlerReturn(e)
    \/ HandlerRaise(e)
    \/ PostErrorReturn(e)
    \/ PostErrorRaise(e)

TerminatingSpec == Spec /\ \A e \in Events : WF_vars(Run(e))

-----------------------------------------------------------------------------
(* What the properties below speak of.                                     *)

IsObject(e) == request[e].kind = "object"
Payload(e) == request[e].obj
Has(e, key) == IsObject(e) /\ key \in DOMAIN Payload(e)
Field(e, key) == Get(Payload(e), key)
Call(h, id) == [handler |-> h, arg |-> id]
\* route_event has run for e, at least up to its first await.
Routed(e) == task[e] # "none"
\* route_event has returned to its caller without an exception.
ReturnedNormally(e) == task[e] = "returned"
\* an exception has left route_event.
Propagated(e) == task[e] = "raised"

-----------------------------------------------------------------------------
\* C1: when the handler invoked for an event raises, no exception leaves
\* route_event, and post_error has been called exactly once for that event,
\* with a context whose payload is the request's payload unchanged.
C1_HandlerFailureReported ==
    \A e \in Events :
        "handler" \in raised[e] =>
            /\ ~Propagated(e)
            /\ Len(errorSink[e]) = 1
            /\ errorSink[e][1].context = [payload |-> Payload(e)]

\* C1 witness: a handler has raised and route_event has returned.
C1_Witness ==
    \E e \in Events :
        /\ "handler" \in raised[e]
        /\ ReturnedNormally(e)
        /\ Len(errorSink[e]) = 1

\* C2: when post_error itself raises while a handler failure is reported,
\* route_event returns normally and post_error is not called again.
C2_SinkFailureSwallowed ==
    \A e \in Events :
        "post_error" \in raised[e] =>
            /\ ReturnedNormally(e)
            /\ Len(errorSink[e]) = 1

\* C2 witness: post_error has raised after a handler failure.
C2_Witness ==
    \E e \in Events :
        /\ raised[e] = {"handler", "post_error"}
        /\ ReturnedNormally(e)

\* C3 as stated: for a "contact.creation" payload whose objectId is present,
\* once route_event has run exactly Enrich has been invoked, once, with it.
C3_AsStated ==
    \A e \in Events :
        ( /\ Routed(e)
          /\ Field(e, "subscriptionType") = JStr("contact.creation")
          /\ Has(e, "objectId") )
        => invoked[e] = <<Call("enrich", Field(e, "objectId"))>>

\* C3 amended: for a "contact.creation" payload whose objectId is present and
\* truthy (not "" and not 0), once route_event has run exactly Enrich has
\* been invoked, once, with that identifier, and no other handler.
C3_EnrichOnContactCreation ==
    \A e \in Events :
        ( /\ Routed(e)
          /\ Field(e, "subscriptionType") = JStr("contact.creation")
          /\ Has(e, "objectId") /\ Truthy(Field(e, "objectId")) )
        => invoked[e] = <<Call("enrich", Field(e, "objectId"))>>

\* C3 witness: a contact creation with a numeric identifier was enriched.
C3_Witness ==
    \E e \in Events :
        /\ ReturnedNormally(e)
        /\ Field(e, "subscriptionType") = JStr("contact.creation")
        /\ invoked[e] = <<Call("enrich", JNum(1))>>

\* What C4 says of a "contact.propertyChange" payload whose identifier is id.
ContactPropertyChangeRouting(e, id) ==
    LET name == Field(e, "propertyName")
    IN  /\ name \in DraftProperties => invoked[e] = <<Call("draft", id)>>
        /\ name \in FollowupProperties => invoked[e] = <<Call("followup", id)>>
        /\ name \notin DraftProperties \cup FollowupProperties
              => invoked[e] = <<>> /\ errorSink[e] = <<>>

\* C4 as stated: the routing of C4 for every "contact.propertyChange"
\* payload whose objectId is present.
C4_AsStated ==
    \A e \in Events :
        ( /\ Routed(e)
          /\ Field(e, "subscriptionType") = JStr("contact.propertyChange")
          /\ Has(e, "objectId") )
        => ContactPropertyChangeRouting(e, Field(e, "objectId"))

\* C4 amended: for every "contact.propertyChange" payload whose objectId is
\* present and truthy: a draft property invokes exactly Draft with the
\* identifier, a follow-up property exactly Followup, and any other
\* propertyName (absent, or differing by case, prefix or suffix) invokes no
\* handler and reports no error.
C4_ContactPropertyRouting ==
    \A e \in Events :
        ( /\ Routed(e)
          /\ Field(e, "subscriptionType") = JStr("contact.propertyChange")
          /\ Has(e, "objectId") /\ Truthy(Field(e, "objectId")) )
        => ContactPropertyChangeRouting(e, Field(e, "objectId"))

\* C4 witness: a property change with a truthy identifier whose name only
\* starts with a routed one has gone through route_event and invoked nothing.
C4_Witness ==
    \E e \in Events :
        /\ ReturnedNormally(e)
        /\ Field(e, "subscriptionType") = JStr("contact.propertyChange")
        /\ Truthy(Field(e, "objectId"))
        /\ Field(e, "propertyName") = JStr("email_opened_at")
        /\ invoked[e] = <<>>

\* What C5 says of a "deal.propertyChange" payload whose identifier is id.
DealPropertyChangeRouting(e, id) ==
    IF Field(e, "propertyName") = JStr("dealstage")
        THEN invoked[e] = <<Call("prep", id)>>
        ELSE invoked[e] = <<>> /\ errorSink[e] = <<>>

\* C5 as stated: the routing of C5 for every "deal.propertyChange" payload
\* whose objectId is present.
C5_AsStated ==
    \A e \in Events :
        ( /\ Routed(e)
          /\ Field(e, "subscriptionType") = JStr("deal.propertyChange")
          /\ Has(e, "objectId") )
        => DealPropertyChangeRouting(e, Field(e, "objectId"))

\* C5 amended: for every "deal.propertyChange" payload whose objectId is
\* present and truthy: propertyName "dealstage" invokes exactly Prep, once,
\* with the identifier; any other propertyName (or none) invokes no handler
\* and reports no error.
C5_DealPropertyRouting ==
    \A e \in Events :
        ( /\ Routed(e)
          /\ Field(e, "subscriptionType") = JStr("deal.propertyChange")
          /\ Has(e, "objectId") /\ Truthy(Field(e, "objectId")) )
        => DealPropertyChangeRouting(e, Field(e, "objectId"))

\* C5 witness: a deal event on "amount" has been dropped, identifier present.
C5_Witness ==
    \E e \in Events :
        /\ ReturnedNormally(e)
        /\ Field(e, "subscriptionType") = JStr("deal.propertyChange")
        /\ Truthy(Field(e, "objectId"))
        /\ Field(e, "propertyName") = JStr("amount")
        /\ invoked[e] = <<>>

\* C6: a payload without subscriptionType is dropped, whatever else it
\* carries: no handler is invoked, post_error is not called, and route_event
\* returns at once.
C6_MissingDiscriminatorDropped ==
    \A e \in Events :
        (IsObject(e) /\ ~Has(e, "subscriptionType")) =>
            /\ invoked[e] = <<>>
            /\ errorSink[e] = <<>>
            /\ Routed(e) => ReturnedNormally(e)

\* C6 witness: a payload without subscriptionType but with an identifier and
\* a routed property name has gone through route_event.
C6_Witness ==
    \E e \in Events :
        /\ IsObject(e) /\ ~Has(e, "subscriptionType")
        /\ Truthy(Field(e, "objectId"))
        /\ Field(e, "propertyName") \in DraftProperties
        /\ ReturnedNormally(e)

\* C7: for every event at most one handler call has been made, in every
\* state, also after the handler or post_error has failed.
C7_AtMostOneHandler ==
    \A e \in Events : Len(invoked[e]) <= 1

\* C7 witness: one handler call, after both the handler and post_error failed.
C7_Witness ==
    \E e \in Events :
        /\ Len(invoked[e]) = 1
        /\ raised[e] = {"handler", "post_error"}
        /\ ReturnedNormally(e)

RecognisedTypes ==
    { JStr("contact.creation"), JStr("contact.propertyChange"), JStr("deal.propertyChange") }

\* C8: a recognised event without objectId, and an event whose
\* subscriptionType is none of the three recognised values, invoke no handler
\* and report no error.
C8_DeadEndsAreSilent ==
    \A e \in Events :
        ( /\ IsObject(e)
          /\ \/ Field(e, "subscriptionType") \in RecognisedTypes /\ ~Has(e, "objectId")
             \/ Has(e, "subscriptionType")
                  /\ Field(e, "subscriptionType") \notin RecognisedTypes )
        => /\ invoked[e] = <<>>
           /\ errorSink[e] = <<>>
           /\ Routed(e) => ReturnedNormally(e)

\* C8 witness: a property change with a routed property name and no objectId
\* has gone through route_event.
C8_Witness ==
    \E e \in Events :
        /\ Field(e, "subscriptionType") = JStr("contact.propertyChange")
        /\ IsObject(e) /\ ~Has(e, "objectId")
        /\ Field(e, "propertyName") \in DraftProperties
        /\ ReturnedNormally(e)

\* C9: every request whose body is a payload is eventually acknowledged to
\* its caller, in every fair behaviour, those where a handler never returns
\* included: no step of the acknowledgment waits for a handler.
C9_AckEventually ==
    \A e \in Events : IsObject(e) ~> (ack[e].status = 200)

\* C9 witness: two requests are acknowledged while both their handlers are
\* still running.
C9_Witness ==
    \E e, f \in Events :
        /\ e # f
        /\ ack[e].status = 200 /\ task[e] = "handler"
        /\ ack[f].status = 200 /\ task[f] = "handler"

\* C10: the acknowledgment received for a payload is JSONResponse200 whatever
\* the payload and whatever route_event, the handler and post_error have done
\* or are doing, and no exception leaves route_event towards the boundary.
C10_FixedAck ==
    \A e \in Events :
        /\ (IsObject(e) /\ ack[e] # NoResponse) => ack[e] = JSONResponse200
        /\ ~Propagated(e)

\* C10 witness: the fixed acknowledgment was received for a dropped payload
\* and for one whose handler and post_error both raised.
C10_Witness ==
    \E e, f \in Events :
        /\ ack[e] = JSONResponse200 /\ ~Has(e, "subscriptionType")
        /\ ReturnedNormally(e) /\ invoked[e] = <<>>
        /\ ack[f] = JSONResponse200 /\ raised[f] = {"handler", "post_error"}

\* C11: for a request whose body is no JSON, hubspot_webhook ends in
\* HTTPException500, which is what the caller receives; route_event is neither
\* scheduled nor run, no handler is invoked and post_error is not called.
C11_ParseFailureRejected ==
    \A e \in Events :
        request[e].kind = "invalid" =>
            /\ response[e] \in {NoResponse, HTTPException500}
            /\ ack[e] \in {NoResponse, HTTPException500}
            /\ background_tasks[e] = <<>>
            /\ ~Routed(e)
            /\ invoked[e] = <<>>
            /\ errorSink[e] = <<>>

\* C11 witness: the caller of a request whose body is no JSON has received
\* the 500 response.
C11_Witness ==
    \E e \in Events :
        /\ request[e].kind = "invalid"
        /\ ack[e].status = 500
        /\ background_tasks[e] = <<>>

\* C12: post_error is called for an event only if a handler was invoked for
\* it and raised: the routing code raises nothing of its own, so an event
\* that was dropped, or whose handler returned, has no post_error call.
C12_OnlyHandlerFailureReported ==
    \A e \in Events :
        /\ "route_event" \notin raised[e]
        /\ errorSink[e] # <<>> => (invoked[e] # <<>> /\ "handler" \in raised[e])
        /\ (ReturnedNormally(e) /\ "handler" \notin raised[e]) => errorSink[e] = <<>>

\* C12 witness: one route_event has returned after its handler returned, with
\* no post_error call, and one has dropped an unknown subscriptionType, with
\* none either.
C12_Witness ==
    \E e \in Events :
        /\ ReturnedNormally(e)
        /\ Field(e, "subscriptionType") = JStr("company.creation")
        /\ errorSink[e] = <<>>
        /\ \E f \in Events :
              /\ ReturnedNormally(f) /\ invoked[f] # <<>> /\ raised[f] = {}
              /\ errorSink[f] = <<>>

\* C13: for every event, route_event has not started, no handler has been
\* invoked and post_error has not been called until the acknowledgment of
\* that event has been sent.
C13_AckBeforeDispatch ==
    \A e \in Events :
        (Routed(e) \/ invoked[e] # <<>> \/ errorSink[e] # <<>>)
            => ack[e] = JSONResponse200

\* C13 witness: an acknowledged event whose handler was invoked and raised,
\* and for which post_error was called.
C13_Witness ==
    \E e \in Events :
        /\ ack[e] = JSONResponse200
        /\ invoked[e] # <<>>
        /\ errorSink[e] # <<>>

\* The state machine of a single event (spec section 4.3).  Classified and
\* HandlerResolved are passed inside the synchronous part of route_event,
\* which no other step can observe.
PhaseEdges ==
    { <<"NotAccepted", "Received">>,
      <<"Received", "Classified">>,
      <<"Classified", "Dropped">>, <<"Classified", "HandlerResolved">>,
      <<"HandlerResolved", "Dispatched">>, <<"HandlerResolved", "DroppedAtResolution">>,
      <<"Dispatched", "Completed">>, <<"Dispatched", "Failed">> }
TransientPhases == {"Classified", "HandlerResolved"}
TerminalPhases == {"Dropped", "DroppedAtResolution", "Completed", "Failed"}

\* b follows a in the state machine, by one edge or through transient phases.
PhasePath(a, b) ==
    \/ <<a, b>> \in PhaseEdges
    \/ \E t \in TransientPhases :
          /\ <<a, t>> \in PhaseEdges
          /\ \/ <<t, b>> \in PhaseEdges
             \/ \E u \in TransientPhases :
                   <<t, u>> \in PhaseEdges /\ <<u, b>> \in PhaseEdges

\* The payload got as far as the property test (router.py lines 50-57 and
\* 69-72): its type has properties and its identifier is there.
ReachedResolution(payload) ==
    /\ Get(payload, "subscriptionType")
          \in {JStr("contact.propertyChange"), JStr("deal.propertyChange")}
    /\ Truthy(Get(payload, "objectId"))

\* Where event e stands in the state machine.
Phase(e) ==
    IF background_tasks[e] = <<>> THEN "NotAccepted"
    ELSE CASE task[e] = "none" -> "Received"
           [] task[e] = "handler" -> "Dispatched"
           [] task[e] = "reporting" -> "Failed"
           [] task[e] = "raised" -> "Escaped"
           [] task[e] = "returned" ->
                IF errorSink[e] # <<>> THEN "Failed"
                ELSE IF invoked[e] # <<>> THEN "Completed"
                ELSE IF ReachedResolution(Head(background_tasks[e]))
                    THEN "DroppedAtResolution"
                ELSE "Dropped"

\* C14: every step moves an event along the state machine or leaves it where
\* it is, and, when the awaited handler and post_error call terminate, from
\* some point on every accepted event is in a terminal phase for good (no
\* edge leaves a terminal phase, and Phase gives each event one phase).
C14_StateMachine ==
    /\ [][\A e \in Events :
            Phase(e)' = Phase(e) \/ PhasePath(Phase(e), Phase(e)')]_vars
    /\ <>[](\A e \in Events : Phase(e) \in TerminalPhases \cup {"NotAccepted"})

\* C14 witness: the four terminal phases are reached; here an event dropped
\* at resolution beside one that failed.
C14_Witness ==
    \E e, f \in Events :
        /\ Phase(e) = "DroppedAtResolution"
        /\ Phase(f) = "Failed" /\ ReturnedNormally(f)

\* C15: nothing but the handler's own end takes an event out of Dispatched:
\* while the handler is awaited post_error has not been called, and the only
\* steps that end the await are the handler returning (route_event returns,
\* nothing raised) and the handler raising.  An event whose handler never
\* returns therefore stays in Dispatched, unreported, for ever.
C15_NoTimeout ==
    /\ [](\A e \in Events : task[e] = "handler" => errorSink[e] = <<>>)
    /\ [][\A e \in Events :
            task[e] = "handler" =>
                \/ task'[e] = "handler" /\ errorSink'[e] = <<>>
                \/ task'[e] = "returned" /\ raised'[e] = raised[e]
                                         /\ errorSink'[e] = <<>>
                \/ task'[e] = "reporting" /\ "handler" \in raised'[e]]_vars

\* C15 witness: a handler is still awaited, unreported, while a request that
\* was dispatched beside it has already run to its end.
C15_Witness ==
    \E e, f \in Events :
        /\ e # f
        /\ task[e] = "handler" /\ errorSink[e] = <<>>
        /\ ReturnedNormally(f) /\ invoked[f] # <<>>

\* Events e and f concern the same subject and both are routed to a handler.
SameSubject(e, f) ==
    /\ e # f
    /\ IsObject(e) /\ IsObject(f)
    /\ Field(e, "objectId") = Field(f, "objectId")
    /\ Classify(Payload(e)).kind = "await"
    /\ Classify(Payload(f)).kind = "await"

\* C16: no lock, order or deduplication stands between two events: whatever
\* the other events are doing, an acknowledged event whose route_event has
\* not run can run it, an awaited handler can end, and of two routed events
\* of one subject each gets its own handler call.  So either handler may run
\* first, or both at once.
C16_NoLockingOrOrdering ==
    \A e \in Events :
        /\ (ack[e] = JSONResponse200 /\ task[e] = "none") => ENABLED RouteEvent(e)
        /\ task[e] = "handler" => ENABLED HandlerReturn(e)
        /\ \A f \in Events :
              (SameSubject(e, f) /\ Routed(e) /\ Routed(f))
                  => Len(invoked[e]) = 1 /\ Len(invoked[f]) = 1

\* C16 witness: the handlers of two events of one subject are running at
\* the same time.
C16_Witness ==
    \E e, f \in Events :
        /\ SameSubject(e, f)
        /\ task[e] = "handler" /\ task[f] = "handler"

\* The handler of e has run to its end before that of f is invoked, and f
\* is ready to invoke it.
HandlerBefore(e, f) ==
    /\ SameSubject(e, f)
    /\ ReturnedNormally(e) /\ invoked[e] # <<>>
    /\ ack[f] = JSONResponse200 /\ task[f] = "none" /\ invoked[f] = <<>>

\* Reachable as well: the first event's handler wholly before the second's.
C16_FirstBeforeSecond == HandlerBefore(1, 2)
\* Reachable as well: the second event's handler wholly before the first's.
C16_SecondBeforeFirst == HandlerBefore(2, 1)

\* The handler calls that the payload of e alone asks for.
OwnCalls(e) ==
    LET step == Classify(Payload(e))
    IN  IF step.kind = "await" THEN <<Call(step.handler, step.arg)>> ELSE <<>>

\* C17: under every interleaving, the handler call made for an event is the
\* one its own payload asks for, post_error is called for it exactly when
\* its own handler raised, with its own payload, and an event whose
\* route_event is ready can run it while the handler of another event is
\* still running or has failed.
C17_DispatchesIndependent ==
    \A e \in Events :
        /\ Routed(e) => invoked[e] = OwnCalls(e)
        /\ errorSink[e] =
              IF "handler" \in raised[e] THEN <<PostErrorCall(Payload(e))>> ELSE <<>>
        /\ ( /\ ack[e] = JSONResponse200 /\ task[e] = "none"
             /\ \E f \in Events \ {e} : task[f] = "handler" \/ raised[f] # {} )
           => ENABLED RouteEvent(e)

\* C17 witness: an event was routed to Prep and completed while the handler
\* of another event, routed to Draft, had failed along with post_error.
C17_Witness ==
    \E e, f \in Events :
        /\ raised[f] = {"handler", "post_error"}
        /\ invoked[f] = <<Call("draft", JStr("42"))>>
        /\ ReturnedNormally(e) /\ raised[e] = {}
        /\ invoked[e] = <<Call("prep", JNum(1))>>

\* The payload without the given key.
Without(payload, key) == [k \in DOMAIN payload \ {key} |-> payload[k]]

\* Key is in the payload of e with a falsy value (0 or "").
PresentButFalsy(e, key) == Has(e, key) /\ ~Truthy(Field(e, key))

\* C18: a payload whose objectId, or whose subscriptionType, is present but
\* falsy is routed like the payload without that field: no handler is
\* invoked, post_error is not called, route_event returns.
C18_FalsyIsAbsent ==
    \A e \in Events :
        \A key \in {"objectId", "subscriptionType"} :
            PresentButFalsy(e, key) =>
                /\ invoked[e] = <<>>
                /\ errorSink[e] = <<>>
                /\ Routed(e) =>
                      /\ ReturnedNormally(e)
                      /\ Classify(Head(background_tasks[e]))
                            = Classify(Without(Payload(e), key))

\* C18 witness: a contact creation with objectId 0 has gone through
\* route_event and nothing was invoked.
C18_Witness ==
    \E e \in Events :
        /\ Field(e, "subscriptionType") = JStr("contact.creation")
        /\ Has(e, "objectId") /\ Field(e, "objectId") = JNum(0)
        /\ ReturnedNormally(e)
        /\ invoked[e] = <<>>

\* The body of e is JSON, but no object.
NonObjectJSON(e) == request[e].kind \in {"list", "string", "number", "null"}

\* C19: route_event is scheduled only with the dict that the body of the
\* request holds; a body that is JSON but no object ends in HTTPException500
\* before anything is scheduled, and nothing is dispatched for it.
C19_OnlyDictsScheduled ==
    \A e \in Events :
        /\ background_tasks[e] # <<>> =>
              IsObject(e) /\ background_tasks[e] = <<Payload(e)>>
        /\ NonObjectJSON(e) =>
              /\ response[e] \in {NoResponse, HTTPException500}
              /\ ack[e] \in {NoResponse, HTTPException500}
              /\ background_tasks[e] = <<>>
              /\ ~Routed(e)
              /\ invoked[e] = <<>>
              /\ errorSink[e] = <<>>

\* C19 witness: the caller of a request whose body is a JSON list has
\* received the 500 response, and nothing was scheduled.
C19_Witness ==
    \E e \in Events :
        /\ request[e].kind = "list"
        /\ ack[e] = HTTPException500
        /\ background_tasks[e] = <<>>

=============================================================================
